---- MODULE Spec2Model ----
(***************************************************************************)
(* Model of the gas-delivery client: the API client (services/api.ts),    *)
(* the session manager (contexts/AuthContext.tsx), the place-order screen  *)
(* (app/place-order.tsx) and the orders screen (app/orders.tsx).           *)
(*                                                                         *)
(* Five specifications share the module:                                   *)
(*   SpecApi    the typed methods and request, one call at a time          *)
(*   SpecCart   addToCart / updateQuantity on a fixed cylinder list        *)
(*   SpecOrder  the whole place-order screen                               *)
(*   SpecOrders the orders screen                                          *)
(*   Spec       the session manager (restore, login, register, refresh,    *)
(*              logout) with its storage                                   *)
(* Each leaves the variables of the other components unchanged.            *)
(***************************************************************************)
EXTENDS Integers, Sequences, FiniteSets, TLC

VARIABLES
    \* ---- services/api.ts : ApiService.request ----
    apiPc,          \* "idle" | "fetch" | "json" | "settled"
    apiMethod,      \* the typed method that was called
    apiArgs,        \* the arguments it was called with
    apiRequest,     \* what it handed to request, hence to fetch
    apiResponse,    \* the Response fetch resolved with (NoResponse before)
    apiResult,      \* what request returned or threw
    jsonCalls,      \* number of response.json() calls made by this request
    \* ---- contexts/AuthContext.tsx : AuthProvider (as seen by useAuth) ----
    user,           \* User | null
    token,          \* string | null
    isLoading,
    error,          \* string | null
    authToken,      \* storage key 'authToken' (null when absent)
    userData,       \* storage key 'userData' (null when absent)
    route,          \* where the router was last sent by the session manager
    proc,           \* the running calls: the mount effect ("restore") and
                    \* the operation the UI invoked ("ui")
    \* ---- app/place-order.tsx : PlaceOrderScreen ----
    cylinders,      \* the displayed (orderable) cylinders
    cart,           \* CartItem[]
    deliveryAddress,
    deliveryLat,
    deliveryLng,
    instructions,
    loading,
    orderError,     \* the screen's `error` state
    cylinderFetches,\* getAllGasCylinders calls in flight
    orderRequests,  \* createOrder calls in flight
    placedAlerts,   \* 'Order Placed!' dialogs waiting for a button
    \* ---- app/orders.tsx : OrdersScreen ----
    orders,         \* the displayed orders (their ids)
    ordersLoading,  \* the screen's `loading` state
    refreshing,
    ordersError,    \* the screen's `error` state
    page,
    hasMore,
    loadingMore,
    listFetches,    \* getAllOrders calls in flight: [pageNum, append]
    cancelRequests  \* cancelOrder calls in flight

apiVars == <<apiPc, apiMethod, apiArgs, apiRequest, apiResponse, apiResult,
             jsonCalls>>

sessionVars == <<user, token, isLoading, error, authToken, userData, route,
                 proc>>

orderVars == <<cylinders, cart, deliveryAddress, deliveryLat, deliveryLng,
               instructions, loading, orderError, cylinderFetches,
               orderRequests, placedAlerts>>

listVars == <<orders, ordersLoading, refreshing, ordersError, page, hasMore,
              loadingMore, listFetches, cancelRequests>>

vars == <<apiVars, sessionVars, orderVars, listVars>>

\* JavaScript's undefined / null, kept as strings so that every value of a
\* field has one type.
undefined == "undefined"
null == "null"

\* JavaScript truthiness of a string-or-absent value.
Truthy(v) == v # undefined /\ v # null /\ v # ""

\* a || b
Or(a, b) == IF Truthy(a) THEN a ELSE b

(***************************************************************************)
(* services/api.ts : ApiService.request                                    *)
(***************************************************************************)

\* Users the session may hold, and the tokens the server issues.
Users == {"u1", "u2"}
Tokens == {"t1", "t2"}

\* Typed methods; every one of them returns this.request(...) unchanged.
ApiMethods ==
    {"login", "register", "verifyToken", "logout", "refreshToken",
     "getAllUsers", "getUserById", "createUser", "updateUser",
     "updatePassword", "deleteUser", "getUsersByRole",
     "getAllGasCylinders", "getGasCylinderById", "createGasCylinder",
     "updateGasCylinder", "deleteGasCylinder",
     "createOrder", "getAllOrders", "getOrderById", "getOrderByNumber",
     "updateOrder", "updateOrderStatus", "updatePaymentStatus",
     "assignOrderToDriver", "cancelOrder", "deleteOrder",
     "getCustomerOrders", "getDriverOrders", "getAvailableOrders",
     "getOrderStatistics", "healthCheck"}

\* Methods without a token parameter, and those whose token is optional.
MethodsWithoutToken == {"login", "register", "createUser", "healthCheck"}
MethodsWithOptionalToken == {"getAllGasCylinders", "getGasCylinderById"}

\* The endpoint a method passes to request (path parameters as :name, the
\* query string left out).
Endpoint(m) ==
    CASE m = "login" -> "/auth/login"
      [] m = "register" -> "/auth/register"
      [] m = "verifyToken" -> "/auth/verify"
      [] m = "logout" -> "/auth/logout"
      [] m = "refreshToken" -> "/auth/refresh"
      [] m \in {"getAllUsers", "createUser"} -> "/users"
      [] m \in {"getUserById", "updateUser", "deleteUser"} -> "/users/:id"
      [] m = "updatePassword" -> "/users/:id/password"
      [] m = "getUsersByRole" -> "/users/role/:role"
      [] m \in {"getAllGasCylinders", "createGasCylinder"} -> "/gas-cylinders"
      [] m \in {"getGasCylinderById", "updateGasCylinder",
                "deleteGasCylinder"} -> "/gas-cylinders/:id"
      [] m \in {"createOrder", "getAllOrders"} -> "/orders"
      [] m \in {"getOrderById", "updateOrder", "deleteOrder"} -> "/orders/:id"
      [] m = "getOrderByNumber" -> "/orders/number/:orderNumber"
      [] m = "updateOrderStatus" -> "/orders/:id/status"
      [] m = "updatePaymentStatus" -> "/orders/:id/payment-status"
      [] m = "assignOrderToDriver" -> "/orders/:orderId/assign"
      [] m = "cancelOrder" -> "/orders/:id/cancel"
      [] m = "getCustomerOrders" -> "/orders/customer/:customerId"
      [] m = "getDriverOrders" -> "/orders/driver/:driverId"
      [] m = "getAvailableOrders" -> "/orders/available"
      [] m = "getOrderStatistics" -> "/orders/statistics"
      [] OTHER -> "/health"

\* The `method` of its options.
HttpMethod(m) ==
    CASE m \in {"login", "register", "logout", "refreshToken", "createUser",
                "createGasCylinder", "createOrder"} -> "POST"
      [] m \in {"updateUser", "updateGasCylinder", "updateOrder"} -> "PUT"
      [] m \in {"updatePassword", "updateOrderStatus", "updatePaymentStatus",
                "assignOrderToDriver", "cancelOrder"} -> "PATCH"
      [] m \in {"deleteUser", "deleteGasCylinder", "deleteOrder"} -> "DELETE"
      [] OTHER -> "GET"

\* `Bearer ${token}`
Bearer(t) == "Bearer " \o t

\* The Authorization header of its options: none where the method sets no
\* such header, and for the cylinder getters only `if (token)`.
Authorization(m, t) ==
    IF m \in MethodsWithoutToken THEN undefined
    ELSE IF m \in MethodsWithOptionalToken
    THEN IF Truthy(t) THEN Bearer(t) ELSE undefined
    ELSE Bearer(t)

\* CreateOrderPayload values, as far as createOrder inspects them: the
\* items array may be missing, empty or hold an item.
OrderPayloads ==
    [customerId : {"", "u1"}, deliveryAddress : {"", "Plot 1, Kampala"}]
    \cup [customerId : {"", "u1"},
          items : {<<>>, <<[cylinderId |-> "c1", quantity |-> 1]>>},
          deliveryAddress : {"", "Plot 1, Kampala"}]

\* The payload argument of the methods that take none.
NoOrderData == [customerId |-> undefined]

NoArgs == [token |-> undefined, orderData |-> NoOrderData]

\* The arguments method m may be called with.
ArgsOf(m) ==
    [token : IF m \in MethodsWithoutToken THEN {undefined}
             ELSE IF m \in MethodsWithOptionalToken
             THEN Tokens \cup {undefined}
             ELSE Tokens,
     orderData : IF m = "createOrder" THEN OrderPayloads ELSE {NoOrderData}]

createOrderRejectionNoAddressCheck(orderData) ==
    IF ~Truthy(orderData.customerId) THEN "Customer ID is required"
    ELSE IF "items" \notin DOMAIN orderData \/ Len(orderData.items) = 0
    THEN "Order items are required"
    ELSE "none"

\* The checks apiService.createOrder makes before it calls request: the
\* message of the error it throws, or "none".
createOrderRejection(orderData) ==
    IF ~Truthy(orderData.customerId) THEN "Customer ID is required"
    ELSE IF "items" \notin DOMAIN orderData \/ Len(orderData.items) = 0
    THEN "Order items are required"
    ELSE IF ~Truthy(orderData.deliveryAddress)
    THEN "Delivery address is required"
    ELSE "none"

\* Nothing was handed to fetch.
NoRequest == [endpoint |-> "none", method |-> "none",
              authorization |-> undefined]

\* The endpoint and options request is called with.
RequestOf(m, args) ==
    [endpoint |-> Endpoint(m), method |-> HttpMethod(m),
     authorization |-> Authorization(m, args.token)]

\* HTTP statuses the server may answer with.
Statuses == {200, 201, 204, 304, 400, 401, 409, 500}

\* Values of the error / message fields of a JSON body.
FieldValues == {undefined, "", "Email already exists", "Validation failed"}

\* A response body: text that is not JSON, the JSON literal null, or a JSON
\* object with optional error and message fields.
Bodies ==
    {[kind |-> "unparseable", error |-> undefined, message |-> undefined],
     [kind |-> "null", error |-> undefined, message |-> undefined]}
    \cup {[kind |-> "object", error |-> e, message |-> m] :
              e \in FieldValues, m \in FieldValues}

Responses == [status : Statuses, body : Bodies]

NoResponse == [status |-> 0,
               body |-> [kind |-> "none", error |-> undefined,
                         message |-> undefined]]

\* {} as T
EmptyObject == [kind |-> "object", error |-> undefined, message |-> undefined]

NoResult == [kind |-> "none"]
Return(data) == [kind |-> "return", data |-> data]
Throw(name, message) == [kind |-> "throw", name |-> name, message |-> message]

\* Response.ok
ok(response) == response.status >= 200 /\ response.status <= 299

NoContentNever(response) == FALSE

\* response.status === 204
NoContent(response) == response.status = 204

\* `HTTP error! status: ${response.status}`
GenericMessage(status) == "HTTP error! status: " \o ToString(status)

ErrorMessageNoErrorField(data, status) ==
    Or(data.message, GenericMessage(status))

\* data.error || data.message || `HTTP error! status: ${response.status}`
ErrorMessage(data, status) ==
    Or(data.error, Or(data.message, GenericMessage(status)))

\* What request does once fetch has resolved with a non-204 response:
\* await response.json(), then the !response.ok test.
AfterJson(response) ==
    IF response.body.kind = "unparseable"
    THEN \* response.json() rejects; the catch block rethrows it as it is
         Throw("SyntaxError", "JSON Parse error")
    ELSE IF ~ok(response)
    THEN IF response.body.kind = "null"
         THEN \* data.error on null
              Throw("TypeError", "Cannot read properties of null")
         ELSE Throw("Error", ErrorMessage(response.body, response.status))
    ELSE Return(response.body)

\* No request has been made yet.
IdleApi ==
    /\ apiPc = "idle"
    /\ apiMethod = "none"
    /\ apiArgs = NoArgs
    /\ apiRequest = NoRequest
    /\ apiResponse = NoResponse
    /\ apiResult = NoResult
    /\ jsonCalls = 0

\* A typed method is called.  createOrder throws when a check fails; in
\* every other case the method calls request, which reaches
\* `await fetch(url, config)`.
ApiCall(m, args) ==
    /\ apiPc \in {"idle", "settled"}
    /\ apiMethod' = m
    /\ apiArgs' = args
    /\ IF m = "createOrder" /\ createOrderRejection(args.orderData) # "none"
       THEN /\ apiPc' = "settled"
            /\ apiRequest' = NoRequest
            /\ apiResult' =
                   Throw("Error", createOrderRejection(args.orderData))
       ELSE /\ apiPc' = "fetch"
            /\ apiRequest' = RequestOf(m, args)
            /\ apiResult' = NoResult
    /\ apiResponse' = NoResponse
    /\ jsonCalls' = 0
    /\ UNCHANGED <<sessionVars, orderVars, listVars>>

\* fetch rejects (DNS, connection refused, ...): the catch block rethrows.
ApiFetchRejected ==
    /\ apiPc = "fetch"
    /\ apiPc' = "settled"
    /\ apiResult' = Throw("TypeError", "Network request failed")
    /\ UNCHANGED <<apiMethod, apiArgs, apiRequest, apiResponse, jsonCalls>>
    /\ UNCHANGED <<sessionVars, orderVars, listVars>>

\* fetch resolves: 204 returns {} at once, anything else goes on to
\* `await response.json()`.
ApiFetchResolved(response) ==
    /\ apiPc = "fetch"
    /\ apiResponse' = response
    /\ IF NoContent(response)
       THEN /\ apiPc' = "settled"
            /\ apiResult' = Return(EmptyObject)
            /\ UNCHANGED jsonCalls
       ELSE /\ apiPc' = "json"
            /\ jsonCalls' = jsonCalls + 1
            /\ UNCHANGED apiResult
    /\ UNCHANGED <<apiMethod, apiArgs, apiRequest>>
    /\ UNCHANGED <<sessionVars, orderVars, listVars>>

\* response.json() settles; request throws or returns the data.
ApiJsonSettled ==
    /\ apiPc = "json"
    /\ apiPc' = "settled"
    /\ apiResult' = AfterJson(apiResponse)
    /\ UNCHANGED <<apiMethod, apiArgs, apiRequest, apiResponse, jsonCalls>>
    /\ UNCHANGED <<sessionVars, orderVars, listVars>>

NextApi ==
    \/ \E m \in ApiMethods : \E args \in ArgsOf(m) : ApiCall(m, args)
    \/ ApiFetchRejected
    \/ \E response \in Responses : ApiFetchResolved(response)
    \/ ApiJsonSettled

(***************************************************************************)
(* Properties of request                                                   *)
(***************************************************************************)

\* C9: whatever the method, when fetch resolved with status 204 request has
\* returned the empty object, has raised nothing and has never called
\* response.json().
C9_NoContentYieldsEmptyObject ==
    (apiResponse.status = 204)
        => /\ apiPc = "settled"
           /\ apiResult = [kind |-> "return", data |-> EmptyObject]
           /\ apiResult.kind # "throw"
           /\ jsonCalls = 0

C9_Witness ==
    /\ apiPc = "settled"
    /\ apiMethod = "logout"
    /\ apiResponse.status = 204
    /\ apiResponse.body.kind = "unparseable"
    /\ apiResult.kind = "return"

\* A field is present when the parsed body has it at all.
Present(v) == v # undefined

\* C10 as stated: on every non-2xx response the message is error if present,
\* else message if present, else the generic string, and the generic string
\* is also raised when the body is not JSON.
C10_AsStated ==
    (apiPc = "settled" /\ apiResponse # NoResponse /\ ~ok(apiResponse))
        => /\ apiResult.kind = "throw"
           /\ apiResult.message =
                 IF apiResponse.body.kind = "object"
                    /\ Present(apiResponse.body.error)
                 THEN apiResponse.body.error
                 ELSE IF apiResponse.body.kind = "object"
                         /\ Present(apiResponse.body.message)
                 THEN apiResponse.body.message
                 ELSE GenericMessage(apiResponse.status)

\* C10 amended: on a non-2xx response whose body parses to a JSON object the
\* message is the error field when that is a non-empty string, else the
\* message field when that is a non-empty string, else the generic string;
\* when the body is not JSON the parse error itself is raised, and a body of
\* null raises the TypeError of reading a field of null.
C10_ErrorMessageOfNon2xx ==
    (apiPc = "settled" /\ apiResponse # NoResponse /\ ~ok(apiResponse))
        => /\ apiResult.kind = "throw"
           /\ apiResponse.body.kind = "object" =>
                /\ apiResult.name = "Error"
                /\ apiResponse.body.error \notin {undefined, ""}
                      => apiResult.message = apiResponse.body.error
                /\ (apiResponse.body.error \in {undefined, ""}
                    /\ apiResponse.body.message \notin {undefined, ""})
                      => apiResult.message = apiResponse.body.message
                /\ (apiResponse.body.error \in {undefined, ""}
                    /\ apiResponse.body.message \in {undefined, ""})
                      => apiResult.message =
                            "HTTP error! status: "
                                \o ToString(apiResponse.status)
           /\ apiResponse.body.kind = "unparseable" =>
                /\ apiResult.name = "SyntaxError"
                /\ apiResult.message # GenericMessage(apiResponse.status)
           /\ apiResponse.body.kind = "null" =>
                apiResult.name = "TypeError"

C10_Witness ==
    /\ apiPc = "settled"
    /\ apiResponse.status = 409
    /\ apiResponse.body.error = "Email already exists"
    /\ apiResult.kind = "throw"
    /\ apiResult.message = "Email already exists"

\* What createOrder requires of its payload.
HasCustomerId(orderData) == orderData.customerId # ""

HasItems(orderData) ==
    IF "items" \in DOMAIN orderData THEN orderData.items # <<>> ELSE FALSE

HasDeliveryAddress(orderData) == orderData.deliveryAddress # ""

\* C11: createOrder called with an empty customerId, a missing or empty
\* items array or an empty deliveryAddress hands nothing to fetch and throws
\* an error that names a requirement the payload does not meet; it sends
\* POST /orders with the caller's bearer token exactly when all three
\* requirements are met.
C11_CreateOrderFailsFast ==
    (apiMethod = "createOrder") =>
        LET orderData == apiArgs.orderData
        IN  IF /\ HasCustomerId(orderData)
               /\ HasItems(orderData)
               /\ HasDeliveryAddress(orderData)
            THEN apiRequest = [endpoint |-> "/orders", method |-> "POST",
                               authorization |->
                                   "Bearer " \o apiArgs.token]
            ELSE /\ apiRequest = NoRequest
                 /\ apiPc = "settled"
                 /\ apiResponse = NoResponse
                 /\ apiResult.kind = "throw"
                 /\ apiResult.name = "Error"
                 /\ \/ /\ apiResult.message = "Customer ID is required"
                       /\ ~HasCustomerId(orderData)
                    \/ /\ apiResult.message = "Order items are required"
                       /\ ~HasItems(orderData)
                    \/ /\ apiResult.message = "Delivery address is required"
                       /\ ~HasDeliveryAddress(orderData)

\* createOrder was called with a customer and an address but no items array.
C11_Witness ==
    /\ apiMethod = "createOrder"
    /\ apiArgs.orderData = [customerId |-> "u1",
                            deliveryAddress |-> "Plot 1, Kampala"]
    /\ apiPc = "settled"
    /\ apiRequest = NoRequest
    /\ apiResult = [kind |-> "throw", name |-> "Error",
                    message |-> "Order items are required"]

\* The requests the interface description exempts from authorization:
\* registration, login, the public cylinder listing and the health check.
PublicRequests ==
    {[endpoint |-> "/auth/register", method |-> "POST"],
     [endpoint |-> "/auth/login", method |-> "POST"],
     [endpoint |-> "/gas-cylinders", method |-> "GET"],
     [endpoint |-> "/health", method |-> "GET"]}

\* C12: every request handed to fetch carries `Authorization: Bearer <token>`
\* unless it goes to one of the four exempted endpoints.
C12_EveryRequestCarriesBearer ==
    (/\ apiRequest # NoRequest
     /\ [endpoint |-> apiRequest.endpoint, method |-> apiRequest.method]
            \notin PublicRequests)
        => \E t \in Tokens : apiRequest.authorization = "Bearer " \o t

(***************************************************************************)
(* app/place-order.tsx : PlaceOrderScreen                                  *)
(***************************************************************************)

\* Largest stockQuantity the server reports.
MaxStock == 2

\* Largest number of requests of one kind in flight at once.
MaxInFlight == 2

DELIVERY_FEE == 5000

\* The cylinders the server sells, in the order it lists them.
CylinderIds == <<"c1", "c2", "c3">>

\* The part of them served while the whole screen is explored.
ScreenCylinderIds == <<"c1">>

\* The price list of the server.
PriceOf(id) ==
    CASE id = "c1" -> 20000
      [] id = "c2" -> 15000
      [] OTHER -> 30000

\* What GET /gas-cylinders may answer: every cylinder with some stock and
\* availability.
ServerCylinderLists(ids) ==
    {[i \in 1..Len(ids) |->
          [id |-> ids[i], price |-> PriceOf(ids[i]),
           stockQuantity |-> st[i], isAvailable |-> av[i]]] :
        st \in [1..Len(ids) -> 0..MaxStock],
        av \in [1..Len(ids) -> BOOLEAN]}

\* data.filter(c => c.isAvailable && c.stockQuantity > 0)
Orderable(data) ==
    SelectSeq(data, LAMBDA c : c.isAvailable /\ c.stockQuantity > 0)

\* { ...cylinder, quantity: q }
CartItemOf(cylinder, q) ==
    [id |-> cylinder.id, price |-> cylinder.price,
     stockQuantity |-> cylinder.stockQuantity,
     isAvailable |-> cylinder.isAvailable, quantity |-> q]

\* The `null` that updateQuantity's map returns for a removed item.
NullItem == [id |-> null, price |-> 0, stockQuantity |-> 0,
             isAvailable |-> FALSE, quantity |-> 0]

\* prev.find(item => item.id === id) !== undefined
InCart(prev, id) == \E i \in 1..Len(prev) : prev[i].id = id

\* prev.find(item => item.id === id)
Find(prev, id) ==
    prev[CHOOSE i \in 1..Len(prev) :
            /\ prev[i].id = id
            /\ \A j \in 1..(i - 1) : prev[j].id # id]

AtStockLimitOffByOne(existing, cylinder) ==
    existing.quantity > cylinder.stockQuantity

\* existing.quantity >= cylinder.stockQuantity
AtStockLimit(existing, cylinder) ==
    existing.quantity >= cylinder.stockQuantity

addToCartAtFront(prev, cylinder) ==
    IF InCart(prev, cylinder.id)
    THEN IF AtStockLimit(Find(prev, cylinder.id), cylinder)
         THEN prev
         ELSE [i \in 1..Len(prev) |->
                  IF prev[i].id = cylinder.id
                  THEN [prev[i] EXCEPT !.quantity = prev[i].quantity + 1]
                  ELSE prev[i]]
    ELSE <<CartItemOf(cylinder, 1)>> \o prev

\* The updater addToCart passes to setCart.
addToCart(prev, cylinder) ==
    IF InCart(prev, cylinder.id)
    THEN IF AtStockLimit(Find(prev, cylinder.id), cylinder)
         THEN prev
         ELSE [i \in 1..Len(prev) |->
                  IF prev[i].id = cylinder.id
                  THEN [prev[i] EXCEPT !.quantity = prev[i].quantity + 1]
                  ELSE prev[i]]
    ELSE Append(prev, CartItemOf(cylinder, 1))

\* The Alert addToCart raises, if any.
addToCartAlert(prev, cylinder) ==
    IF InCart(prev, cylinder.id)
       /\ AtStockLimit(Find(prev, cylinder.id), cylinder)
    THEN "Stock Limit"
    ELSE "none"

\* The function updateQuantity maps over the cart.
UpdatedItem(item, id, change) ==
    IF item.id = id
    THEN LET newQuantity == item.quantity + change
         IN  IF newQuantity <= 0 THEN NullItem
             ELSE IF newQuantity > item.stockQuantity THEN item
             ELSE [item EXCEPT !.quantity = newQuantity]
    ELSE item

\* The updater updateQuantity passes to setCart: map, then filter(Boolean).
updateQuantity(prev, id, change) ==
    SelectSeq([i \in 1..Len(prev) |-> UpdatedItem(prev[i], id, change)],
              LAMBDA item : item # NullItem)

updateQuantityAlert(prev, id, change) ==
    IF \E i \in 1..Len(prev) :
          /\ prev[i].id = id
          /\ prev[i].quantity + change > 0
          /\ prev[i].quantity + change > prev[i].stockQuantity
    THEN "Stock Limit"
    ELSE "none"

\* cart.reduce((sum, item) => sum + (item.price * item.quantity), 0)
RECURSIVE Reduce(_, _, _)
Reduce(items, i, sum) ==
    IF i > Len(items) THEN sum
    ELSE Reduce(items, i + 1, sum + (items[i].price * items[i].quantity))

subtotal == Reduce(cart, 1, 0)

totalWithoutFee == subtotal

total == subtotal + DELIVERY_FEE

\* Texts the user may type into the delivery fields.
Addresses == {"", "  ", "Plot 1, Kampala"}
Latitudes == {"", "0", "95", "-91", "abc"}
Longitudes == {"", "32", "200"}
InstructionTexts == {"", "Call on arrival"}

\* user?.address || '', user?.latitude?.toString() || '', ...
AddressOf(u) == IF u = "u1" THEN "Plot 1, Kampala" ELSE ""
LatitudeOf(u) == IF u = "u1" THEN "0" ELSE ""
LongitudeOf(u) == IF u = "u1" THEN "32" ELSE ""

\* String.prototype.trim on the texts above.
trim(text) == IF text = "  " THEN "" ELSE text

NaN == [nan |-> TRUE, value |-> 0]
Num(n) == [nan |-> FALSE, value |-> n]

\* parseFloat on the texts above.
parseFloat(text) ==
    CASE text = "0" -> Num(0)
      [] text = "95" -> Num(95)
      [] text = "-91" -> Num(-91)
      [] text = "32" -> Num(32)
      [] text = "200" -> Num(200)
      [] OTHER -> NaN

canPlaceOrderIgnoringCart ==
    /\ Truthy(trim(deliveryAddress))
    /\ Truthy(deliveryLat)
    /\ Truthy(deliveryLng)
    /\ ~loading

\* canPlaceOrder(), as a truth value.
canPlaceOrder ==
    /\ Len(cart) > 0
    /\ Truthy(trim(deliveryAddress))
    /\ Truthy(deliveryLat)
    /\ Truthy(deliveryLng)
    /\ ~loading

InvalidCoordinatesLatitudeOnly(lat, lng) ==
    \/ lat.nan
    \/ lng.nan
    \/ lat.value < -90
    \/ lat.value > 90

\* isNaN(lat) || isNaN(lng) || lat < -90 || lat > 90 || lng < -180 || lng > 180
InvalidCoordinates(lat, lng) ==
    \/ lat.nan
    \/ lng.nan
    \/ lat.value < -90
    \/ lat.value > 90
    \/ lng.value < -180
    \/ lng.value > 180

\* The CreateOrderPayload placeOrder builds.
OrderData ==
    [customerId |-> user,
     items |-> [i \in 1..Len(cart) |->
                   [cylinderId |-> cart[i].id, quantity |-> cart[i].quantity]],
     deliveryAddress |-> trim(deliveryAddress),
     deliveryLatitude |-> parseFloat(deliveryLat).value,
     deliveryLongitude |-> parseFloat(deliveryLng).value,
     specialInstructions |->
         IF Truthy(trim(instructions)) THEN trim(instructions) ELSE undefined]

\* Messages a failed request may carry (err.message).
FailureMessages == {undefined, "Network request failed",
                    "Insufficient stock for c1", "Out of Stock"}

IncludesStockAlways(message) == TRUE

\* err.message?.includes('stock')
IncludesStock(message) == message = "Insufficient stock for c1"

\* loadCylinders(), up to its await: nothing without a token, otherwise
\* setLoading(true) and one more request in flight.
FetchesAfterLoadCylinders ==
    IF Truthy(token) THEN cylinderFetches + 1 ELSE cylinderFetches

LoadingAfterLoadCylinders == IF Truthy(token) THEN TRUE ELSE loading

\* The screen after its first render and its mount effect, which calls
\* loadCylinders().
InitOrderScreen ==
    /\ cylinders = <<>>
    /\ cart = <<>>
    /\ deliveryAddress = AddressOf(user)
    /\ deliveryLat = LatitudeOf(user)
    /\ deliveryLng = LongitudeOf(user)
    /\ instructions = ""
    /\ loading = Truthy(token)
    /\ orderError = ""
    /\ cylinderFetches = (IF Truthy(token) THEN 1 ELSE 0)
    /\ orderRequests = 0
    /\ placedAlerts = 0

\* The screen's controls can be used: it renders them only with a user, and
\* an 'Order Placed!' dialog is modal.
Interactive == user # null /\ placedAlerts = 0

\* getAllGasCylinders resolves inside loadCylinders.
CylindersLoaded(data) ==
    /\ cylinderFetches > 0
    /\ cylinderFetches' = cylinderFetches - 1
    /\ cylinders' = Orderable(data)
    /\ orderError' = ""
    /\ loading' = FALSE
    /\ UNCHANGED <<cart, deliveryAddress, deliveryLat, deliveryLng,
                   instructions, orderRequests, placedAlerts>>
    /\ UNCHANGED <<apiVars, sessionVars, listVars>>

\* getAllGasCylinders rejects inside loadCylinders.
CylindersFailed(message) ==
    /\ cylinderFetches > 0
    /\ cylinderFetches' = cylinderFetches - 1
    /\ orderError' = Or(message, "Failed to load gas cylinders")
    /\ loading' = FALSE
    /\ UNCHANGED <<cylinders, cart, deliveryAddress, deliveryLat,
                   deliveryLng, instructions, orderRequests, placedAlerts>>
    /\ UNCHANGED <<apiVars, sessionVars, listVars>>

\* The Retry button, shown while error is set: onPress={loadCylinders}.
Retry ==
    /\ Interactive
    /\ Truthy(orderError)
    /\ FetchesAfterLoadCylinders <= MaxInFlight
    /\ cylinderFetches' = FetchesAfterLoadCylinders
    /\ loading' = LoadingAfterLoadCylinders
    /\ UNCHANGED <<cylinders, cart, deliveryAddress, deliveryLat,
                   deliveryLng, instructions, orderError, orderRequests,
                   placedAlerts>>
    /\ UNCHANGED <<apiVars, sessionVars, listVars>>

\* The Add button of a displayed cylinder (disabled while loading).
AddToCart(cylinder) ==
    /\ Interactive
    /\ ~loading
    /\ cart' = addToCart(cart, cylinder)
    /\ UNCHANGED <<cylinders, deliveryAddress, deliveryLat, deliveryLng,
                   instructions, loading, orderError, cylinderFetches,
                   orderRequests, placedAlerts>>
    /\ UNCHANGED <<apiVars, sessionVars, listVars>>

\* The - and + buttons of a cart item (disabled while loading).
UpdateQuantity(id, change) ==
    /\ Interactive
    /\ ~loading
    /\ cart' = updateQuantity(cart, id, change)
    /\ UNCHANGED <<cylinders, deliveryAddress, deliveryLat, deliveryLng,
                   instructions, loading, orderError, cylinderFetches,
                   orderRequests, placedAlerts>>
    /\ UNCHANGED <<apiVars, sessionVars, listVars>>

\* The delivery text inputs (editable while not loading).
SetDeliveryAddress(text) ==
    /\ Interactive
    /\ ~loading
    /\ deliveryAddress' = text
    /\ UNCHANGED <<cylinders, cart, deliveryLat, deliveryLng, instructions,
                   loading, orderError, cylinderFetches, orderRequests,
                   placedAlerts>>
    /\ UNCHANGED <<apiVars, sessionVars, listVars>>

SetDeliveryLat(text) ==
    /\ Interactive
    /\ ~loading
    /\ deliveryLat' = text
    /\ UNCHANGED <<cylinders, cart, deliveryAddress, deliveryLng,
                   instructions, loading, orderError, cylinderFetches,
                   orderRequests, placedAlerts>>
    /\ UNCHANGED <<apiVars, sessionVars, listVars>>

SetDeliveryLng(text) ==
    /\ Interactive
    /\ ~loading
    /\ deliveryLng' = text
    /\ UNCHANGED <<cylinders, cart, deliveryAddress, deliveryLat,
                   instructions, loading, orderError, cylinderFetches,
                   orderRequests, placedAlerts>>
    /\ UNCHANGED <<apiVars, sessionVars, listVars>>

SetInstructions(text) ==
    /\ Interactive
    /\ ~loading
    /\ instructions' = text
    /\ UNCHANGED <<cylinders, cart, deliveryAddress, deliveryLat,
                   deliveryLng, loading, orderError, cylinderFetches,
                   orderRequests, placedAlerts>>
    /\ UNCHANGED <<apiVars, sessionVars, listVars>>

\* placeOrder() returns before setLoading(true): no session, an incomplete
\* order, or coordinates that are not numbers in range.
PlaceOrderReturnsEarly ==
    \/ ~Truthy(user)
    \/ ~Truthy(token)
    \/ ~canPlaceOrder
    \/ InvalidCoordinates(parseFloat(deliveryLat), parseFloat(deliveryLng))

\* placeOrder(), up to `await apiService.createOrder(orderData, token)`.
PlaceOrder ==
    /\ Interactive
    /\ orderRequests < MaxInFlight
    /\ IF PlaceOrderReturnsEarly
       THEN UNCHANGED <<loading, orderRequests, cylinderFetches>>
       ELSE IF createOrderRejection(OrderData) # "none"
       THEN \* createOrder throws before any request: catch, then finally
            /\ IncludesStock(createOrderRejection(OrderData)) =>
                   FetchesAfterLoadCylinders <= MaxInFlight
            /\ cylinderFetches' =
                   (IF IncludesStock(createOrderRejection(OrderData))
                    THEN FetchesAfterLoadCylinders ELSE cylinderFetches)
            /\ loading' = FALSE
            /\ UNCHANGED orderRequests
       ELSE /\ loading' = TRUE
            /\ orderRequests' = orderRequests + 1
            /\ UNCHANGED cylinderFetches
    /\ UNCHANGED <<cylinders, cart, deliveryAddress, deliveryLat,
                   deliveryLng, instructions, orderError, placedAlerts>>
    /\ UNCHANGED <<apiVars, sessionVars, listVars>>

\* createOrder resolves: the 'Order Placed!' dialog, then finally.
OrderCreated ==
    /\ orderRequests > 0
    /\ orderRequests' = orderRequests - 1
    /\ placedAlerts' = placedAlerts + 1
    /\ loading' = FALSE
    /\ UNCHANGED <<cylinders, cart, deliveryAddress, deliveryLat,
                   deliveryLng, instructions, orderError, cylinderFetches>>
    /\ UNCHANGED <<apiVars, sessionVars, listVars>>

\* createOrder rejects: the catch block, then finally.
OrderFailed(message) ==
    /\ orderRequests > 0
    /\ orderRequests' = orderRequests - 1
    /\ IncludesStock(message) => FetchesAfterLoadCylinders <= MaxInFlight
    /\ cylinderFetches' = (IF IncludesStock(message)
                           THEN FetchesAfterLoadCylinders
                           ELSE cylinderFetches)
    /\ loading' = FALSE
    /\ UNCHANGED <<cylinders, cart, deliveryAddress, deliveryLat,
                   deliveryLng, instructions, orderError, placedAlerts>>
    /\ UNCHANGED <<apiVars, sessionVars, listVars>>

\* The 'New Order' button of the 'Order Placed!' dialog.
NewOrder ==
    /\ placedAlerts > 0
    /\ FetchesAfterLoadCylinders <= MaxInFlight
    /\ placedAlerts' = placedAlerts - 1
    /\ cart' = <<>>
    /\ instructions' = ""
    /\ cylinderFetches' = FetchesAfterLoadCylinders
    /\ loading' = LoadingAfterLoadCylinders
    /\ UNCHANGED <<cylinders, deliveryAddress, deliveryLat, deliveryLng,
                   orderError, orderRequests>>
    /\ UNCHANGED <<apiVars, sessionVars, listVars>>

\* The 'View Orders' button of the dialog: router.push('/home'), which
\* leaves this screen's state as it is.
ViewOrders ==
    /\ placedAlerts > 0
    /\ placedAlerts' = placedAlerts - 1
    /\ UNCHANGED <<cylinders, cart, deliveryAddress, deliveryLat,
                   deliveryLng, instructions, loading, orderError,
                   cylinderFetches, orderRequests>>
    /\ UNCHANGED <<apiVars, sessionVars, listVars>>

\* The cart operations alone.
NextCart ==
    \/ \E i \in 1..Len(cylinders) : AddToCart(cylinders[i])
    \/ \E i \in 1..Len(cart), change \in {-1, 1} :
          UpdateQuantity(cart[i].id, change)

NextOrder ==
    \/ \E data \in ServerCylinderLists(ScreenCylinderIds) :
          CylindersLoaded(data)
    \/ \E message \in FailureMessages : CylindersFailed(message)
    \/ Retry
    \/ \E i \in 1..Len(cylinders) : AddToCart(cylinders[i])
    \/ \E i \in 1..Len(cart), change \in {-1, 1} :
          UpdateQuantity(cart[i].id, change)
    \/ \E text \in Addresses : SetDeliveryAddress(text)
    \/ \E text \in Latitudes : SetDeliveryLat(text)
    \/ \E text \in Longitudes : SetDeliveryLng(text)
    \/ \E text \in InstructionTexts : SetInstructions(text)
    \/ PlaceOrder
    \/ OrderCreated
    \/ \E message \in FailureMessages : OrderFailed(message)
    \/ NewOrder
    \/ ViewOrders

(***************************************************************************)
(* app/orders.tsx : OrdersScreen                                           *)
(***************************************************************************)

\* Largest page number loadMore asks for.
MaxPage == 3

ITEMS_PER_PAGE == 10

\* How many orders the customer may have on the server when it answers.
ServerTotals == {0, 4, 10, 20, 24}

\* response.data for page pageNum of a customer with `count` orders, the
\* orders being numbered in the server's order.
PageOf(pageNum, count) ==
    LET first == (pageNum - 1) * ITEMS_PER_PAGE
        length == IF count - first >= ITEMS_PER_PAGE THEN ITEMS_PER_PAGE
                  ELSE IF count - first > 0 THEN count - first
                  ELSE 0
    IN  [i \in 1..length |-> first + i]

\* if (!token || !user) return
loadOrdersReturnsEarly == ~Truthy(token) \/ ~Truthy(user)

\* loadOrders(pageNum, append), up to its await: the requests in flight and
\* the two flags after it.
FetchesAfterLoadOrders(pageNum, append) ==
    IF loadOrdersReturnsEarly THEN listFetches
    ELSE Append(listFetches, [pageNum |-> pageNum, append |-> append])

LoadingAfterLoadOrders(pageNum) ==
    IF ~loadOrdersReturnsEarly /\ pageNum = 1 THEN TRUE ELSE ordersLoading

LoadingMoreAfterLoadOrders(pageNum) ==
    IF ~loadOrdersReturnsEarly /\ pageNum # 1 THEN TRUE ELSE loadingMore

\* listFetches without its i-th element.
Settled(i) ==
    SubSeq(listFetches, 1, i - 1)
        \o SubSeq(listFetches, i + 1, Len(listFetches))

\* The screen after its first render and its mount effect, which calls
\* loadOrders().
InitOrdersScreen ==
    /\ orders = <<>>
    /\ ordersLoading = TRUE
    /\ refreshing = FALSE
    /\ ordersError = ""
    /\ page = 1
    /\ hasMore = TRUE
    /\ loadingMore = FALSE
    /\ listFetches = (IF loadOrdersReturnsEarly THEN <<>>
                      ELSE <<[pageNum |-> 1, append |-> FALSE]>>)
    /\ cancelRequests = 0

\* The screen is not open: nothing is displayed or in flight.
NoOrdersScreen ==
    /\ orders = <<>>
    /\ ordersLoading = TRUE
    /\ refreshing = FALSE
    /\ ordersError = ""
    /\ page = 1
    /\ hasMore = TRUE
    /\ loadingMore = FALSE
    /\ listFetches = <<>>
    /\ cancelRequests = 0

\* The screen is rendered at all, and its FlatList is.
OrdersShown == user # null

ListShown == OrdersShown /\ ~(ordersLoading /\ Len(orders) = 0)

\* getAllOrders resolves inside loadOrders: the try block, then finally.
OrdersLoaded(i, count) ==
    /\ i \in 1..Len(listFetches)
    /\ LET data == PageOf(listFetches[i].pageNum, count)
       IN  /\ orders' = (IF listFetches[i].append THEN orders \o data
                         ELSE data)
           /\ hasMore' = (Len(data) = ITEMS_PER_PAGE)
    /\ ordersError' = ""
    /\ ordersLoading' = FALSE
    /\ loadingMore' = FALSE
    /\ refreshing' = FALSE
    /\ listFetches' = Settled(i)
    /\ UNCHANGED <<page, cancelRequests>>
    /\ UNCHANGED <<apiVars, sessionVars, orderVars>>

\* getAllOrders rejects inside loadOrders: the catch block, then finally.
OrdersFailed(i, message) ==
    /\ i \in 1..Len(listFetches)
    /\ ordersError' = Or(message, "Failed to load orders")
    /\ orders' = (IF listFetches[i].pageNum = 1 THEN <<>> ELSE orders)
    /\ ordersLoading' = FALSE
    /\ loadingMore' = FALSE
    /\ refreshing' = FALSE
    /\ listFetches' = Settled(i)
    /\ UNCHANGED <<page, hasMore, cancelRequests>>
    /\ UNCHANGED <<apiVars, sessionVars, orderVars>>

\* onRefresh(): setRefreshing(true), setPage(1), loadOrders(1, false).
onRefresh ==
    /\ Len(FetchesAfterLoadOrders(1, FALSE)) <= MaxInFlight
    /\ refreshing' = TRUE
    /\ page' = 1
    /\ listFetches' = FetchesAfterLoadOrders(1, FALSE)
    /\ ordersLoading' = LoadingAfterLoadOrders(1)
    /\ loadingMore' = LoadingMoreAfterLoadOrders(1)
    /\ UNCHANGED <<orders, ordersError, hasMore, cancelRequests>>
    /\ UNCHANGED <<apiVars, sessionVars, orderVars>>

\* The list is pulled down (the RefreshControl is idle).
PullToRefresh ==
    /\ ListShown
    /\ ~refreshing
    /\ onRefresh

\* The Retry button, shown while error is set: onPress={onRefresh}.
RetryOrders ==
    /\ OrdersShown
    /\ Truthy(ordersError)
    /\ onRefresh

\* !loadingMore && hasMore
loadMoreGuard == ~loadingMore /\ hasMore

\* The list is scrolled to its end: onEndReached={loadMore}.
loadMore ==
    /\ ListShown
    /\ IF loadMoreGuard
       THEN /\ page < MaxPage
            /\ Len(FetchesAfterLoadOrders(page + 1, TRUE)) <= MaxInFlight
            /\ page' = page + 1
            /\ listFetches' = FetchesAfterLoadOrders(page + 1, TRUE)
            /\ ordersLoading' = LoadingAfterLoadOrders(page + 1)
            /\ loadingMore' = LoadingMoreAfterLoadOrders(page + 1)
       ELSE UNCHANGED <<page, listFetches, ordersLoading, loadingMore>>
    /\ UNCHANGED <<orders, refreshing, ordersError, hasMore, cancelRequests>>
    /\ UNCHANGED <<apiVars, sessionVars, orderVars>>

\* 'Yes, Cancel' on the dialog of a displayed order: cancelOrder(orderId),
\* up to `await apiService.cancelOrder(orderId, token)`.
cancelOrder ==
    /\ ListShown
    /\ Len(orders) > 0
    /\ Truthy(token)
    /\ cancelRequests < MaxInFlight
    /\ cancelRequests' = cancelRequests + 1
    /\ ordersLoading' = TRUE
    /\ UNCHANGED <<orders, refreshing, ordersError, page, hasMore,
                   loadingMore, listFetches>>
    /\ UNCHANGED <<apiVars, sessionVars, orderVars>>

\* apiService.cancelOrder resolves: onRefresh(), then finally.
CancelOrderOk ==
    /\ cancelRequests > 0
    /\ Len(FetchesAfterLoadOrders(1, FALSE)) <= MaxInFlight
    /\ cancelRequests' = cancelRequests - 1
    /\ refreshing' = TRUE
    /\ page' = 1
    /\ listFetches' = FetchesAfterLoadOrders(1, FALSE)
    /\ loadingMore' = LoadingMoreAfterLoadOrders(1)
    /\ ordersLoading' = FALSE
    /\ UNCHANGED <<orders, ordersError, hasMore>>
    /\ UNCHANGED <<apiVars, sessionVars, orderVars>>

\* apiService.cancelOrder rejects: the catch block, then finally.
CancelOrderFailed ==
    /\ cancelRequests > 0
    /\ cancelRequests' = cancelRequests - 1
    /\ ordersLoading' = FALSE
    /\ UNCHANGED <<orders, refreshing, ordersError, page, hasMore,
                   loadingMore, listFetches>>
    /\ UNCHANGED <<apiVars, sessionVars, orderVars>>

NextOrders ==
    \/ \E i \in 1..Len(listFetches), count \in ServerTotals :
          OrdersLoaded(i, count)
    \/ \E i \in 1..Len(listFetches), message \in FailureMessages :
          OrdersFailed(i, message)
    \/ PullToRefresh
    \/ RetryOrders
    \/ loadMore
    \/ cancelOrder
    \/ CancelOrderOk
    \/ CancelOrderFailed

(***************************************************************************)
(* contexts/AuthContext.tsx : AuthProvider                                 *)
(*                                                                         *)
(* Every action is one synchronous stretch of an async function, from one  *)
(* await to the next.  setUser and setToken are two state cells set by two *)
(* calls: after an await React commits them together only on a root that   *)
(* batches updates, and one after the other on a legacy root, so the       *)
(* stretch is split between the two calls.  While a call is between them   *)
(* (InRender) nothing else runs.                                           *)
(***************************************************************************)

\* JSON.stringify(response.user)
JSONstringify(u) == "{\"id\":\"" \o u \o "\"}"

\* JSON.parse(storedUserData)
JSONparse(text) == CHOOSE u \in Users : JSONstringify(u) = text

\* What login, register and refresh may resolve with.
AuthResponses == [user : Users, token : Tokens]

NoAuthResponse == [user |-> null, token |-> null]

\* error.message of a rejected API call.
ApiFailureMessages == {undefined, "Invalid credentials"}

\* error.message of a rejected storage call.
StorageFailureMessage == "Storage is unavailable"

Procs == {"restore", "ui"}

\* No session was recorded at the start of the call.
NoSnapshot == <<>>

\* user, token and the two stored items, as a running login or register
\* found them.
Snapshot == <<user, token, authToken, userData>>

\* A call that is not running.  A running call records the token of its
\* closure, the API methods it has called (sent), the message of the error
\* its catch block received (caught), and how often it has called
\* router.replace (redirects); login and register also record, until they
\* finish, the session they were invoked in (before).
Idle == [op |-> "none", pc |-> "idle", token |-> null,
         storedToken |-> null, response |-> NoAuthResponse,
         remote |-> "none", verify |-> "none", clear |-> "none",
         sent |-> {}, caught |-> "none", redirects |-> 0,
         outcome |-> "none", before |-> NoSnapshot]

\* Positions between two state setters of one synchronous stretch.
RenderPcs == {"restore_setToken", "auth_setToken", "refresh_setUser",
              "logout_setToken", "logoutCatch_setToken"}

InRender == \E p \in Procs : proc[p].pc \in RenderPcs

\* p is suspended at the await named pc and may be resumed.
At(p, pc) == proc[p].pc = pc /\ ~InRender

\* The provider after its first render and its mount effect, which has run
\* loadStoredAuthData up to `await CrossPlatformStorage.getItem('authToken')`.
\* Storage holds what earlier runs left: nothing, a token alone (the second
\* setItem failed), or a token and a user.
InitSession ==
    /\ user = null
    /\ token = null
    /\ isLoading = TRUE
    /\ error = null
    /\ authToken \in Tokens \cup {null}
    /\ userData \in {JSONstringify(u) : u \in Users} \cup {null}
    /\ authToken = null => userData = null
    /\ route = "/"
    /\ proc = [p \in Procs |->
                  IF p = "restore"
                  THEN [Idle EXCEPT !.op = "restore", !.pc = "getToken"]
                  ELSE Idle]

\* logout(), from its first line to its first await, as called by p whose
\* closure holds the given token: the new position of p.
LogoutStart(p, closureToken) ==
    IF Truthy(closureToken)
    THEN [proc[p] EXCEPT !.pc = "logoutApi",
                         !.sent = proc[p].sent \cup {"logout"}]
    ELSE [proc[p] EXCEPT !.pc = "logout_setToken"]

\* The user cell after that stretch: setUser(null) is reached only when no
\* remote call is awaited.
UserAfterLogoutStart(closureToken) ==
    IF Truthy(closureToken) THEN user ELSE null

\* logout() has run its finally block and returned to its caller, which
\* runs to its own end: logout itself and restore return, refresh rethrows.
ReturnFromLogout(p) ==
    [proc[p] EXCEPT !.pc = "done",
                    !.outcome = IF proc[p].op = "refreshToken"
                                THEN "threw" ELSE "returned"]

\* ---- loadStoredAuthData ----

RestoreGotToken ==
    /\ At("restore", "getToken")
    /\ proc' = [proc EXCEPT !["restore"].storedToken = authToken,
                            !["restore"].pc = "getUser"]
    /\ UNCHANGED <<user, token, isLoading, error, authToken, userData, route>>
    /\ UNCHANGED <<apiVars, orderVars, listVars>>

\* Either getItem rejects: catch, then finally.
RestoreGetItemFailed ==
    /\ At("restore", "getToken") \/ At("restore", "getUser")
    /\ error' = "Failed to load session."
    /\ isLoading' = FALSE
    /\ proc' = [proc EXCEPT !["restore"].pc = "done",
                            !["restore"].outcome = "returned"]
    /\ UNCHANGED <<user, token, authToken, userData, route>>
    /\ UNCHANGED <<apiVars, orderVars, listVars>>

RestoreGotUser ==
    /\ At("restore", "getUser")
    /\ IF Truthy(proc["restore"].storedToken) /\ Truthy(userData)
       THEN /\ user' = JSONparse(userData)
            /\ proc' = [proc EXCEPT !["restore"].pc = "restore_setToken"]
            /\ UNCHANGED isLoading
       ELSE /\ isLoading' = FALSE
            /\ proc' = [proc EXCEPT !["restore"].pc = "done",
                                    !["restore"].outcome = "returned"]
            /\ UNCHANGED user
    /\ UNCHANGED <<token, error, authToken, userData, route>>
    /\ UNCHANGED <<apiVars, orderVars, listVars>>

\* setToken(storedToken), then `await apiService.verifyToken(storedToken)`.
RestoreSetToken ==
    /\ proc["restore"].pc = "restore_setToken"
    /\ token' = proc["restore"].storedToken
    /\ proc' = [proc EXCEPT !["restore"].pc = "verify",
                            !["restore"].sent = {"verifyToken"}]
    /\ UNCHANGED <<user, isLoading, error, authToken, userData, route>>
    /\ UNCHANGED <<apiVars, orderVars, listVars>>

VerifyOk ==
    /\ At("restore", "verify")
    /\ isLoading' = FALSE
    /\ proc' = [proc EXCEPT !["restore"].verify = "ok",
                            !["restore"].pc = "done",
                            !["restore"].outcome = "returned"]
    /\ UNCHANGED <<user, token, error, authToken, userData, route>>
    /\ UNCHANGED <<apiVars, orderVars, listVars>>

\* verifyToken rejects: `await logout()`, the logout of the first render,
\* whose token is the initial null.
VerifyFailed ==
    /\ At("restore", "verify")
    /\ isLoading' = TRUE
    /\ error' = null
    /\ user' = UserAfterLogoutStart(proc["restore"].token)
    /\ proc' = [proc EXCEPT
                   !["restore"] =
                       [LogoutStart("restore", proc["restore"].token)
                           EXCEPT !.verify = "failed"]]
    /\ UNCHANGED <<token, authToken, userData, route>>
    /\ UNCHANGED <<apiVars, orderVars, listVars>>

\* ---- login, register, refreshToken, logout as invoked by the UI ----

\* The UI invokes an operation of the current context value only when the
\* one it invoked before has finished.
CanInvoke == proc["ui"].pc \in {"idle", "done"} /\ ~InRender

\* login(credentials) or register(userData), up to the API call.
InvokeAuth(op) ==
    /\ CanInvoke
    /\ isLoading' = TRUE
    /\ error' = null
    /\ proc' = [proc EXCEPT !["ui"] =
                    [Idle EXCEPT !.op = op, !.pc = "authApi",
                                 !.token = token, !.sent = {op},
                                 !.before = Snapshot]]
    /\ UNCHANGED <<user, token, authToken, userData, route>>
    /\ UNCHANGED <<apiVars, orderVars, listVars>>

\* error.message || '<operation> failed. Please try again.'
DefaultMessage(op) ==
    IF op = "login" THEN "Login failed. Please try again."
    ELSE "Registration failed. Please try again."

AuthApiOk(response) ==
    /\ At("ui", "authApi")
    /\ user' = response.user
    /\ proc' = [proc EXCEPT !["ui"].response = response,
                            !["ui"].pc = "auth_setToken"]
    /\ UNCHANGED <<token, isLoading, error, authToken, userData, route>>
    /\ UNCHANGED <<apiVars, orderVars, listVars>>

AuthApiFailed(message) ==
    /\ At("ui", "authApi")
    /\ error' = Or(message, DefaultMessage(proc["ui"].op))
    /\ isLoading' = FALSE
    /\ proc' = [proc EXCEPT !["ui"].pc = "done", !["ui"].caught = message,
                            !["ui"].outcome = "threw",
                            !["ui"].before = NoSnapshot]
    /\ UNCHANGED <<user, token, authToken, userData, route>>
    /\ UNCHANGED <<apiVars, orderVars, listVars>>

\* setToken(response.token), then `await setItem('authToken', ...)`.
AuthSetToken ==
    /\ proc["ui"].pc = "auth_setToken"
    /\ token' = proc["ui"].response.token
    /\ proc' = [proc EXCEPT !["ui"].pc = "persistToken"]
    /\ UNCHANGED <<user, isLoading, error, authToken, userData, route>>
    /\ UNCHANGED <<apiVars, orderVars, listVars>>

RefreshStartWithoutTokenCheck(t) ==
    [Idle EXCEPT !.op = "refreshToken", !.pc = "refreshApi", !.token = t,
                 !.sent = {"refreshToken"}]

\* refreshToken(), from its first line to its first await, in a render
\* whose token is t: the position of the call.  With a token it awaits the
\* API call; without one it throws 'No token available for refresh', which
\* its catch block receives, and calls logout(), which makes no remote call.
RefreshStart(t) ==
    IF Truthy(t)
    THEN [Idle EXCEPT !.op = "refreshToken", !.pc = "refreshApi",
                      !.token = t, !.sent = {"refreshToken"}]
    ELSE [Idle EXCEPT !.op = "refreshToken", !.pc = "logout_setToken",
                      !.token = t,
                      !.caught = "No token available for refresh"]

\* refreshToken() as invoked by the UI.
InvokeRefresh ==
    /\ CanInvoke
    /\ isLoading' = TRUE
    /\ error' = null
    /\ proc' = [proc EXCEPT !["ui"] = RefreshStart(token)]
    /\ user' = (IF RefreshStart(token).pc = "logout_setToken"
                THEN null ELSE user)
    /\ UNCHANGED <<token, authToken, userData, route>>
    /\ UNCHANGED <<apiVars, orderVars, listVars>>

\* refreshToken resolves: setToken first, then setUser.
RefreshOk(response) ==
    /\ At("ui", "refreshApi")
    /\ token' = response.token
    /\ proc' = [proc EXCEPT !["ui"].response = response,
                            !["ui"].pc = "refresh_setUser"]
    /\ UNCHANGED <<user, isLoading, error, authToken, userData, route>>
    /\ UNCHANGED <<apiVars, orderVars, listVars>>

RefreshSetUser ==
    /\ proc["ui"].pc = "refresh_setUser"
    /\ user' = proc["ui"].response.user
    /\ proc' = [proc EXCEPT !["ui"].pc = "persistToken"]
    /\ UNCHANGED <<token, isLoading, error, authToken, userData, route>>
    /\ UNCHANGED <<apiVars, orderVars, listVars>>

\* refreshToken's catch block: setError('Session expired...'), then
\* `await logout()`, whose first lines are setIsLoading(true) and
\* setError(null).
RefreshCatch(message) ==
    /\ isLoading' = TRUE
    /\ error' = null
    /\ user' = UserAfterLogoutStart(proc["ui"].token)
    /\ proc' = [proc EXCEPT !["ui"] =
                    [LogoutStart("ui", proc["ui"].token)
                        EXCEPT !.caught = message]]
    /\ UNCHANGED <<token, authToken, userData, route>>

\* apiService.refreshToken rejects.
RefreshFailed(message) ==
    /\ At("ui", "refreshApi")
    /\ RefreshCatch(message)
    /\ UNCHANGED <<apiVars, orderVars, listVars>>

\* setItem('authToken', response.token) resolves.
PersistTokenOk ==
    /\ At("ui", "persistToken")
    /\ authToken' = proc["ui"].response.token
    /\ proc' = [proc EXCEPT !["ui"].pc = "persistUser"]
    /\ UNCHANGED <<user, token, isLoading, error, userData, route>>
    /\ UNCHANGED <<apiVars, orderVars, listVars>>

\* setItem('userData', JSON.stringify(response.user)) resolves: finally.
PersistUserOk ==
    /\ At("ui", "persistUser")
    /\ userData' = JSONstringify(proc["ui"].response.user)
    /\ isLoading' = FALSE
    /\ proc' = [proc EXCEPT !["ui"].pc = "done",
                            !["ui"].outcome = "returned",
                            !["ui"].before = NoSnapshot]
    /\ UNCHANGED <<user, token, error, authToken, route>>
    /\ UNCHANGED <<apiVars, orderVars, listVars>>

\* Either setItem rejects: login and register set the error and rethrow,
\* refreshToken goes through its catch block.
PersistFailed ==
    /\ At("ui", "persistToken") \/ At("ui", "persistUser")
    /\ IF proc["ui"].op = "refreshToken"
       THEN RefreshCatch(StorageFailureMessage)
       ELSE /\ error' = StorageFailureMessage
            /\ isLoading' = FALSE
            /\ proc' = [proc EXCEPT !["ui"].pc = "done",
                                    !["ui"].caught = StorageFailureMessage,
                                    !["ui"].outcome = "threw",
                                    !["ui"].before = NoSnapshot]
            /\ UNCHANGED <<user, token, authToken, userData, route>>
    /\ UNCHANGED <<apiVars, orderVars, listVars>>

\* logout(), up to its first await.
InvokeLogout ==
    /\ CanInvoke
    /\ isLoading' = TRUE
    /\ error' = null
    /\ user' = UserAfterLogoutStart(token)
    /\ proc' = [proc EXCEPT !["ui"] =
                    [Idle EXCEPT !.op = "logout",
                                 !.pc = LogoutStart("ui", token).pc,
                                 !.token = token,
                                 !.sent = IF Truthy(token)
                                          THEN {"logout"} ELSE {}]]
    /\ UNCHANGED <<token, authToken, userData, route>>
    /\ UNCHANGED <<apiVars, orderVars, listVars>>

\* ---- logout, whoever called it ----

\* apiService.logout settles; a rejection is only logged.  setUser(null).
LogoutApiSettled(p, result) ==
    /\ At(p, "logoutApi")
    /\ user' = null
    /\ proc' = [proc EXCEPT ![p].remote = result,
                            ![p].pc = "logout_setToken"]
    /\ UNCHANGED <<token, isLoading, error, authToken, userData, route>>
    /\ UNCHANGED <<apiVars, orderVars, listVars>>

\* setToken(null), then `await CrossPlatformStorage.clear()`.
LogoutSetToken(p) ==
    /\ proc[p].pc = "logout_setToken"
    /\ token' = null
    /\ proc' = [proc EXCEPT ![p].pc = "clear"]
    /\ UNCHANGED <<user, isLoading, error, authToken, userData, route>>
    /\ UNCHANGED <<apiVars, orderVars, listVars>>

\* clear() resolves: router.replace('/login'), finally, back in the caller.
ClearOk(p) ==
    /\ At(p, "clear")
    /\ authToken' = null
    /\ userData' = null
    /\ route' = "/login"
    /\ isLoading' = FALSE
    /\ proc' = [proc EXCEPT ![p] =
                    [ReturnFromLogout(p)
                        EXCEPT !.clear = "ok",
                               !.redirects = proc[p].redirects + 1]]
    /\ UNCHANGED <<user, token, error>>
    /\ UNCHANGED <<apiVars, orderVars, listVars>>

\* clear() rejects, having removed all, some or none of the keys: the catch
\* block sets the error and setUser(null).
ClearFailed(p, keptToken, keptUser) ==
    /\ At(p, "clear")
    /\ authToken' = (IF keptToken THEN authToken ELSE null)
    /\ userData' = (IF keptUser THEN userData ELSE null)
    /\ error' = "Logout failed, but session was cleared locally."
    /\ user' = null
    /\ proc' = [proc EXCEPT ![p].clear = "failed",
                            ![p].pc = "logoutCatch_setToken"]
    /\ UNCHANGED <<token, isLoading, route>>
    /\ UNCHANGED <<apiVars, orderVars, listVars>>

\* setToken(null) of the catch block, finally, back in the caller.
LogoutCatchSetToken(p) ==
    /\ proc[p].pc = "logoutCatch_setToken"
    /\ token' = null
    /\ isLoading' = FALSE
    /\ proc' = [proc EXCEPT ![p] = ReturnFromLogout(p)]
    /\ UNCHANGED <<user, error, authToken, userData, route>>
    /\ UNCHANGED <<apiVars, orderVars, listVars>>

Next ==
    \/ RestoreGotToken
    \/ RestoreGetItemFailed
    \/ RestoreGotUser
    \/ RestoreSetToken
    \/ VerifyOk
    \/ VerifyFailed
    \/ \E op \in {"login", "register"} : InvokeAuth(op)
    \/ \E response \in AuthResponses : AuthApiOk(response)
    \/ \E message \in ApiFailureMessages : AuthApiFailed(message)
    \/ AuthSetToken
    \/ InvokeRefresh
    \/ \E response \in AuthResponses : RefreshOk(response)
    \/ RefreshSetUser
    \/ \E message \in ApiFailureMessages : RefreshFailed(message)
    \/ PersistTokenOk
    \/ PersistUserOk
    \/ PersistFailed
    \/ InvokeLogout
    \/ \E p \in Procs, result \in {"ok", "failed"} :
          LogoutApiSettled(p, result)
    \/ \E p \in Procs : LogoutSetToken(p)
    \/ \E p \in Procs : ClearOk(p)
    \/ \E p \in Procs, keptToken \in BOOLEAN, keptUser \in BOOLEAN :
          ClearFailed(p, keptToken, keptUser)
    \/ \E p \in Procs : LogoutCatchSetToken(p)

(***************************************************************************)
(* Specifications                                                          *)
(***************************************************************************)

\* A session manager at rest, holding the session the screens are given.
SessionAtRest(u, t) ==
    /\ user = u
    /\ token = t
    /\ isLoading = FALSE
    /\ error = null
    /\ authToken = t
    /\ userData = (IF u = null THEN null ELSE JSONstringify(u))
    /\ route = "/"
    /\ proc = [p \in Procs |-> Idle]

\* The session manager from process start; no screen is open.
Init ==
    /\ IdleApi
    /\ InitSession
    /\ cylinders = <<>>
    /\ cart = <<>>
    /\ deliveryAddress = ""
    /\ deliveryLat = ""
    /\ deliveryLng = ""
    /\ instructions = ""
    /\ loading = FALSE
    /\ orderError = ""
    /\ cylinderFetches = 0
    /\ orderRequests = 0
    /\ placedAlerts = 0
    /\ NoOrdersScreen

Spec == Init /\ [][Next]_vars

\* The client alone: no session, no screen activity.
InitApi ==
    /\ IdleApi
    /\ SessionAtRest(null, null)
    /\ InitOrderScreen
    /\ NoOrdersScreen

SpecApi == InitApi /\ [][NextApi]_vars

\* The cart operations on a cylinder list that has been fetched and is not
\* fetched again.
InitCart ==
    /\ IdleApi
    /\ SessionAtRest("u1", "t1")
    /\ \E data \in ServerCylinderLists(CylinderIds) :
          cylinders = Orderable(data)
    /\ cart = <<>>
    /\ deliveryAddress = AddressOf(user)
    /\ deliveryLat = LatitudeOf(user)
    /\ deliveryLng = LongitudeOf(user)
    /\ instructions = ""
    /\ loading = FALSE
    /\ orderError = ""
    /\ cylinderFetches = 0
    /\ orderRequests = 0
    /\ placedAlerts = 0
    /\ NoOrdersScreen

SpecCart == InitCart /\ [][NextCart]_vars

\* The screen is opened with a session or without one.
InitOrder ==
    /\ IdleApi
    /\ SessionAtRest(null, null) \/ SessionAtRest("u1", "t1")
    /\ InitOrderScreen
    /\ NoOrdersScreen

SpecOrder == InitOrder /\ [][NextOrder]_vars

\* The place-order screen is not open.
NoOrderScreen ==
    /\ cylinders = <<>>
    /\ cart = <<>>
    /\ deliveryAddress = ""
    /\ deliveryLat = ""
    /\ deliveryLng = ""
    /\ instructions = ""
    /\ loading = FALSE
    /\ orderError = ""
    /\ cylinderFetches = 0
    /\ orderRequests = 0
    /\ placedAlerts = 0

\* The orders screen is opened with a session or without one.
InitOrders ==
    /\ IdleApi
    /\ SessionAtRest(null, null) \/ SessionAtRest("u1", "t1")
    /\ NoOrderScreen
    /\ InitOrdersScreen

SpecOrders == InitOrders /\ [][NextOrders]_vars

(***************************************************************************)
(* Properties of the cart and of the place-order screen                    *)
(***************************************************************************)

\* The displayed cylinder a cart item was added from.
DisplayedStock(id) ==
    LET i == CHOOSE i \in 1..Len(cylinders) : cylinders[i].id = id
    IN  cylinders[i].stockQuantity

C1_QuantityInRange ==
    \A i \in 1..Len(cart) :
        /\ cart[i].quantity >= 1
        /\ cart[i].quantity <= cart[i].stockQuantity
        /\ \E j \in 1..Len(cylinders) : cylinders[j].id = cart[i].id
        /\ cart[i].quantity <= DisplayedStock(cart[i].id)

C1_OnlyExhaustedItemsLeave ==
    \A i \in 1..Len(cart) :
        ~InCart(cart', cart[i].id) => cart[i].quantity = 1

\* C1: under every sequence of addToCart and updateQuantity calls each cart
\* item's quantity is at least 1 and at most the stockQuantity of its
\* cylinder, and an item leaves the cart exactly when a decrement would
\* take it from 1 to 0 (no item is ever kept with quantity 0 or less).
C1_CartQuantityWithinStock ==
    []C1_QuantityInRange /\ [][C1_OnlyExhaustedItemsLeave]_vars

\* A cart of several cylinders in which one has been raised to its stock
\* limit of more than one unit and another sits at quantity 1.
C1_Witness ==
    /\ Len(cart) >= 2
    /\ \E i \in 1..Len(cart) :
          cart[i].quantity = cart[i].stockQuantity /\ cart[i].quantity >= 2
    /\ \E i \in 1..Len(cart) :
          cart[i].quantity = 1 /\ cart[i].stockQuantity >= 2

\* The items of a cart other than the one with the given id, in order.
Others(items, id) == SelectSeq(items, LAMBDA item : item.id # id)

\* The quantity of the item with the given id, 0 when there is none.
QuantityOf(items, id) ==
    IF \E i \in 1..Len(items) : items[i].id = id
    THEN (CHOOSE item \in {items[i] : i \in 1..Len(items)} :
              item.id = id).quantity
    ELSE 0

\* One press of Add on a displayed cylinder.
C24_AddToCartStep(cylinder) ==
    AddToCart(cylinder)
        => /\ Others(cart', cylinder.id) = Others(cart, cylinder.id)
           /\ IF QuantityOf(cart, cylinder.id) = 0
              THEN /\ Len(cart') = Len(cart) + 1
                   /\ cart'[Len(cart')].id = cylinder.id
                   /\ cart'[Len(cart')].quantity = 1
                   /\ SubSeq(cart', 1, Len(cart)) = cart
              ELSE /\ Len(cart') = Len(cart)
                   /\ \A i \in 1..Len(cart) : cart'[i].id = cart[i].id
                   /\ \/ QuantityOf(cart', cylinder.id)
                            = QuantityOf(cart, cylinder.id) + 1
                      \/ /\ QuantityOf(cart, cylinder.id)
                               >= cylinder.stockQuantity
                         /\ cart' = cart

\* One press of - or + on a cart item.
C24_UpdateQuantityStep(id, change) ==
    UpdateQuantity(id, change)
        => /\ Others(cart', id) = Others(cart, id)
           /\ \A i \in 1..Len(cart') : \E j \in 1..Len(cart) :
                 cart'[i].id = cart[j].id
           /\ \/ /\ QuantityOf(cart', id) = QuantityOf(cart, id) + change
                 /\ Len(cart') = (IF QuantityOf(cart', id) = 0
                                  THEN Len(cart) - 1 ELSE Len(cart))
              \/ /\ QuantityOf(cart, id) + change
                       > Find(cart, id).stockQuantity
                 /\ cart' = cart

\* C24: addToCart appends an absent cylinder at the end with quantity 1 and
\* adds 1 to a present one; updateQuantity changes only the item with the
\* given id; both leave every other item, its quantity and the order of the
\* items as they were, and a change refused at the stock limit leaves the
\* cart identical.
C24_CartOperationsAreLocal ==
    [][/\ \A i \in 1..Len(cylinders) : C24_AddToCartStep(cylinders[i])
       /\ \A i \in 1..Len(cart), change \in {-1, 1} :
             C24_UpdateQuantityStep(cart[i].id, change)]_vars

\* A cart of three cylinders, added in an order that is not the server's,
\* whose middle item has been raised above 1.
C24_Witness ==
    /\ Len(cart) = 3
    /\ cart[1].id = "c3"
    /\ cart[2].id = "c1"
    /\ cart[2].quantity = 2
    /\ cart[3].quantity = 1

\* The coordinates typed in are numbers outside the valid ranges.
LatitudeOutOfRange ==
    /\ ~parseFloat(deliveryLat).nan
    /\ \/ parseFloat(deliveryLat).value < -90
       \/ parseFloat(deliveryLat).value > 90

LongitudeOutOfRange ==
    /\ ~parseFloat(deliveryLng).nan
    /\ \/ parseFloat(deliveryLng).value < -180
       \/ parseFloat(deliveryLng).value > 180

\* C6: canPlaceOrder is false whenever the latitude is outside [-90, 90] or
\* the longitude is outside [-180, 180].
C6_OutOfRangeNotEligible ==
    (LatitudeOutOfRange \/ LongitudeOutOfRange) => ~canPlaceOrder

C7_EmptyCartNotEligible == (Len(cart) = 0) => ~canPlaceOrder

C7_NoEmptyOrderDispatched ==
    (orderRequests' > orderRequests)
        => /\ Len(cart) > 0
           /\ Len(OrderData.items) > 0

\* C7: canPlaceOrder is false whenever the cart is empty, whatever the
\* address and the coordinates are, and every createOrder request that
\* placeOrder dispatches carries at least one item.
C7_EmptyCartNeverSubmitted ==
    []C7_EmptyCartNotEligible /\ [][C7_NoEmptyOrderDispatched]_vars

\* An empty cart next to a complete, valid delivery form on an idle screen,
\* after the user has emptied the cart again.
C7_Witness ==
    /\ Interactive
    /\ Len(cart) = 0
    /\ Len(cylinders) > 0
    /\ Truthy(trim(deliveryAddress))
    /\ ~InvalidCoordinates(parseFloat(deliveryLat), parseFloat(deliveryLng))
    /\ ~loading
    /\ ~canPlaceOrder

\* Sum of price times quantity, from the last item to the first.
RECURSIVE SumOfLines(_)
SumOfLines(items) ==
    IF items = <<>> THEN 0
    ELSE SumOfLines(SubSeq(items, 1, Len(items) - 1))
         + items[Len(items)].quantity * items[Len(items)].price

\* The cart [{price: 20000, qty: 2}, {price: 15000, qty: 1}].
ExampleCart ==
    /\ Len(cart) = 2
    /\ cart[1].price = 20000 /\ cart[1].quantity = 2
    /\ cart[2].price = 15000 /\ cart[2].quantity = 1

\* C8: total is the sum over the cart of price times quantity plus the
\* delivery fee of 5000; the example cart gives 60000, the empty cart 5000.
C8_TotalIsSubtotalPlusFee ==
    /\ total = SumOfLines(cart) + 5000
    /\ ExampleCart => total = 60000
    /\ cart = <<>> => total = 5000

C8_Witness == ExampleCart /\ total = 60000

\* C17: at no time is more than one createOrder request of the place-order
\* screen in flight.
C17_OneOrderRequestInFlight == orderRequests <= 1

\* C18: at no time is more than one getAllOrders request of the orders
\* screen in flight.
C18_OneListFetchInFlight == Len(listFetches) <= 1

\* C21: when a submission fails, a refetch of the cylinder list is started
\* if the message contains 'stock' and none is started otherwise; either
\* way the cart, the address, the coordinates and the instructions are left
\* as they were and loading is false when the submission has finished.
C21_FailedSubmission ==
    [][\A message \in FailureMessages :
          OrderFailed(message)
             => /\ cylinderFetches' =
                      (IF message = "Insufficient stock for c1"
                       THEN cylinderFetches + 1 ELSE cylinderFetches)
                /\ cart' = cart
                /\ deliveryAddress' = deliveryAddress
                /\ deliveryLat' = deliveryLat
                /\ deliveryLng' = deliveryLng
                /\ instructions' = instructions
                /\ loading' = FALSE
                /\ orderRequests' = orderRequests - 1]_vars

\* A stock failure has just ended: its refetch is under way, nothing is
\* being submitted, loading is false and the cart is still filled.
C21_Witness ==
    /\ cylinderFetches = 1
    /\ orderRequests = 0
    /\ placedAlerts = 0
    /\ ~loading
    /\ Len(cart) > 0

\* Everything placeOrder needs is there and valid.
C22_Dispatchable ==
    /\ user # null
    /\ token # null
    /\ Len(cart) > 0
    /\ deliveryAddress \notin {"", "  "}
    /\ ~parseFloat(deliveryLat).nan
    /\ parseFloat(deliveryLat).value \in -90..90
    /\ ~parseFloat(deliveryLng).nan
    /\ parseFloat(deliveryLng).value \in -180..180

\* C22: placeOrder dispatches a createOrder request only with a user, a
\* token, a non-empty cart, a non-blank address and coordinates that are
\* numbers in range; otherwise it sends nothing and leaves cart and loading
\* as they were.
C22_PlaceOrderDispatchesOnlyValid ==
    [][/\ (orderRequests' > orderRequests) => C22_Dispatchable
       /\ (PlaceOrder /\ ~C22_Dispatchable)
             => /\ cart' = cart
                /\ loading' = loading
                /\ orderRequests' = orderRequests
                /\ cylinderFetches' = cylinderFetches]_vars

\* A valid order is on its way to the server.
C22_Witness ==
    /\ orderRequests = 1
    /\ loading
    /\ C22_Dispatchable

\* C20: when the 'Order Placed!' dialog of a successful submission is
\* closed, by whichever button, the cart and the special instructions are
\* empty and a refetch of the cylinder list has been started.
C20_SuccessClearsCartAndRefetches ==
    [][(placedAlerts' < placedAlerts)
          => /\ cart' = <<>>
             /\ instructions' = ""
             /\ cylinderFetches' = cylinderFetches + 1]_vars

(***************************************************************************)
(* Properties of the session manager                                       *)
(***************************************************************************)

\* C2: in every state, also between two steps of an operation, user and
\* token are both set or both null.
C2_SessionNeverPartial == (user = null) <=> (token = null)

\* The call of p reaches its end in this step.
Finishes(p, op) ==
    /\ proc[p].op = op
    /\ proc[p].pc # "done"
    /\ proc'[p].pc = "done"

StorageCleared == authToken = null /\ userData = null

\* C3: when logout was invoked with a token and the remote logout call
\* failed, logout ends with user and token null and storage cleared, and
\* returns without raising.
C3_LogoutSurvivesRemoteFailure ==
    [][(/\ Finishes("ui", "logout")
        /\ Truthy(proc["ui"].token)
        /\ proc'["ui"].remote = "failed")
          => /\ user' = null
             /\ token' = null
             /\ StorageCleared'
             /\ proc'["ui"].outcome = "returned"]_vars

\* C4: in whatever state logout is invoked and whichever of its steps
\* fails, it returns without raising and storage then holds neither
\* authToken nor userData.
C4_LogoutAlwaysClearsStorage ==
    [][Finishes("ui", "logout")
          => /\ proc'["ui"].outcome = "returned"
             /\ StorageCleared']_vars

\* C5: when storage held a token and a user at startup and verification
\* failed, restore ends with no session in memory, storage cleared,
\* isLoading false, and without raising.
C5_RestoreAfterFailedVerification ==
    [][(Finishes("restore", "restore") /\ proc'["restore"].verify = "failed")
          => /\ user' = null
             /\ token' = null
             /\ StorageCleared'
             /\ isLoading' = FALSE
             /\ proc'["restore"].outcome = "returned"]_vars

\* The refresh call of the UI asked the server and was turned down.
ServerRejectedRefresh(call) ==
    /\ call.op = "refreshToken"
    /\ "refreshToken" \in call.sent
    /\ call.response = NoAuthResponse

\* C13: when refresh was invoked with a token and the server rejected it,
\* refresh ends with no session in memory or in storage, with error set to
\* the session-expired message, and raising the error it caught.
C13_RefreshRejectedExpiresSession ==
    [][(/\ Finishes("ui", "refreshToken")
        /\ Truthy(proc["ui"].token)
        /\ ServerRejectedRefresh(proc'["ui"]))
          => /\ user' = null
             /\ token' = null
             /\ StorageCleared'
             /\ error' = "Session expired. Please log in again."
             /\ proc'["ui"].outcome = "threw"
             /\ proc'["ui"].caught \in ApiFailureMessages]_vars

\* C14: refresh invoked while no token is held ends by raising the
\* 'No token available for refresh' error and never calls the refresh
\* endpoint.
C14_RefreshWithoutToken ==
    [][(Finishes("ui", "refreshToken") /\ proc["ui"].token = null)
          => /\ proc'["ui"].outcome = "threw"
             /\ proc'["ui"].caught = "No token available for refresh"
             /\ "refreshToken" \notin proc'["ui"].sent]_vars

\* A refresh invoked without a token has run to its end.
C14_Witness ==
    /\ proc["ui"].op = "refreshToken"
    /\ proc["ui"].pc = "done"
    /\ proc["ui"].token = null
    /\ proc["ui"].outcome = "threw"
    /\ proc["ui"].sent = {}

\* C15: when login, register or refresh returns without raising, user and
\* token are those of the server's response, authToken is that token and
\* userData is the JSON text of that user.
C15_SuccessMirrorsResponse ==
    [][(/\ \E op \in {"login", "register", "refreshToken"} :
              Finishes("ui", op)
        /\ proc'["ui"].outcome = "returned")
          => /\ user' = proc'["ui"].response.user
             /\ token' = proc'["ui"].response.token
             /\ authToken' = proc'["ui"].response.token
             /\ userData' = JSONstringify(proc'["ui"].response.user)]_vars

\* The call of p has started and has not finished.
Running(p) == proc[p].pc \notin {"idle", "done"}

\* C16: isLoading is true while any operation is running and false when
\* none is.
C16_LoadingWhileRunning ==
    /\ (\E p \in Procs : Running(p)) => isLoading
    /\ (\A p \in Procs : ~Running(p)) => ~isLoading

\* The call of p went through logout().
RanLogout(call) == call.clear # "none"

\* C19: every call that ran logout has called router.replace('/login')
\* exactly once when it ends, and the route changes in no step other than
\* the one after logout's clear().
C19_LogoutRedirectsOnce ==
    [][/\ \A p \in Procs :
            (proc[p].pc # "done" /\ proc'[p].pc = "done"
             /\ RanLogout(proc'[p]))
                => /\ proc'[p].redirects = 1
                   /\ route' = "/login"
       /\ route' # route => \E p \in Procs : proc[p].pc = "clear"]_vars

\* Positions inside logout().
LogoutPcs == {"logoutApi", "logout_setToken", "clear", "logoutCatch_setToken"}

\* The call of p runs the first statements of logout() in this step.
EntersLogout(p) ==
    /\ proc[p].pc \notin LogoutPcs
    /\ proc'[p].pc \in LogoutPcs

\* C23: whenever a call starts logout while the session holds a token -
\* the logout of the UI, the forced logout of restore and that of refresh -
\* the remote logout endpoint is called with that token before user and
\* token are cleared; when no token is held no remote call is made.
C23_LogoutNotifiesServer ==
    [][\A p \in Procs :
          EntersLogout(p)
             => IF token # null
                THEN /\ proc'[p].pc = "logoutApi"
                     /\ "logout" \in proc'[p].sent
                     /\ proc'[p].token = token
                     /\ user' = user
                     /\ token' = token
                ELSE /\ proc'[p].pc # "logoutApi"
                     /\ "logout" \notin proc'[p].sent]_vars

\* A fetch started by loadMore has not settled yet.
LoadMoreInFlight ==
    \E i \in 1..Len(listFetches) : listFetches[i].append

\* C25: hasMore is set only by a fetch that succeeded, to whether that fetch
\* returned a full page of ITEMS_PER_PAGE orders, and loadMore starts no
\* fetch and leaves the page counter alone while hasMore is false or a
\* load-more fetch is in flight.
C25_LoadMoreIsGuarded ==
    [][/\ \A i \in 1..Len(listFetches), count \in ServerTotals :
             OrdersLoaded(i, count)
                => hasMore' = (Len(PageOf(listFetches[i].pageNum, count))
                                  = ITEMS_PER_PAGE)
       /\ (\A i \in 1..Len(listFetches), count \in ServerTotals :
               ~OrdersLoaded(i, count)) => hasMore' = hasMore
       /\ (loadMore /\ (~hasMore \/ LoadMoreInFlight))
             => UNCHANGED <<page, listFetches>>]_vars

\* The login the UI invoked has returned to its caller without an error.
LoginCompleted ==
    /\ proc["ui"].op = "login"
    /\ proc["ui"].pc = "done"
    /\ proc["ui"].outcome = "returned"

\* C26: when a login completed while the startup restore was awaiting the
\* verification of the previously stored token (the session is the one of
\* that login, not the restored one) and the verification then fails, the
\* step that handles the failure keeps the user, the token and the persisted
\* authToken and userData.
C26_RestoreKeepsNewSession ==
    [][(/\ LoginCompleted
        /\ proc["restore"].pc = "verify"
        /\ proc["restore"].storedToken # proc["ui"].response.token
        /\ token = proc["ui"].response.token
        /\ user = proc["ui"].response.user
        /\ proc'["restore"].verify = "failed")
          => UNCHANGED <<user, token, authToken, userData>>]_vars

\* C27: when login or register ends by raising an error to its caller, the
\* user, the token and the persisted authToken and userData are what they
\* were when it was invoked.
C27_FailedAuthChangesNothing ==
    [][\A op \in {"login", "register"} :
          (Finishes("ui", op) /\ proc'["ui"].outcome = "threw")
             => <<user', token', authToken', userData'>>
                   = proc["ui"].before]_vars

\* Server pages 1 up to lastPage of a customer with `count` orders, one
\* after the other.
RECURSIVE PagesUpTo(_, _)
PagesUpTo(lastPage, count) ==
    IF lastPage = 0 THEN <<>>
    ELSE PagesUpTo(lastPage - 1, count) \o PageOf(lastPage, count)

\* C28: once no fetch and no cancellation is in flight, the displayed list
\* is, for some number of orders the server may hold, server pages 1 up to
\* the page counter in order, without gaps or duplicates.
C28_ListIsPagesUpToCounter ==
    (listFetches = <<>> /\ cancelRequests = 0)
        => \E count \in ServerTotals : orders = PagesUpTo(page, count)

\* C29: the place-order screen's loading flag is true whenever a cylinder
\* fetch or an order submission is in flight.
C29_LoadingWhileInFlight ==
    (cylinderFetches > 0 \/ orderRequests > 0) => loading

\* C30: every cart item refers to a cylinder of the displayed list, which
\* holds the orderable cylinders of the last fetch, and its quantity is at
\* most the stockQuantity that fetch gave for the cylinder.
C30_CartWithinFetchedStock ==
    \A i \in 1..Len(cart) :
        \E j \in 1..Len(cylinders) :
            /\ cylinders[j].id = cart[i].id
            /\ cart[i].quantity <= cylinders[j].stockQuantity

====
